---- MODULE Spec2Model ----
(***************************************************************************)
(* Model of backend/index.js: the REST handlers over the projects and      *)
(* tasks tables.  A request handled on its own connection inside one       *)
(* transaction is one atomic action; the committed store is the pair       *)
(* (projects, tasks).  JavaScript values that the code compares are kept   *)
(* with their JavaScript type where the comparison depends on it (the      *)
(* path parameter of a request is a string, the id of a row is a number).  *)
(* Request bodies carry numbers for taskLevel, parentID and projectID; an  *)
(* omitted field is the default the destructuring gives it.                *)
(***************************************************************************)
EXTENDS Integers, Sequences, FiniteSets, TLC

\* ---------------------------------------------------------------- bounds
\* Number of task rows the auto-increment counter hands out.
MaxTasks == 2
\* Number of project rows the auto-increment counter hands out.
MaxProjects == 1
\* Number of task rows in the specification of chains of three tasks.
MaxChainTasks == 3
\* Number of task rows the counter hands out where handlers run step by step.
MaxStepTasks == 2
\* Number of task rows of a project whose tree is built from a well-formed
\* forest.
MaxTreeTasks == 4
\* Number of rows the descendant closure of DELETE /tasks/:id scans.
MaxClosureRows == 3

\* Keys of levelMap in DELETE /tasks/:id: the levels that own a levelNID column.
NumLevels == 4

\* ids a request can name: every id the counters can hand out, for a task
\* also 0 (no row has it, and an omitted parentID), for a project also one
\* id beyond the counter, which never exists.
TaskIdInputs == 0..MaxTasks
ProjectIdInputs == 1..(MaxProjects + 1)
\* taskLevel values of a request body: the four levels, 0 and one beyond.
LevelInputs == 0..(NumLevels + 1)
\* project ids of the runs that start with project 1 stored: it and an id
\* no project has
StepProjectIds == {1, 2}

VARIABLES
    projects,       \* set of ids of the rows of table projects
    tasks,          \* table tasks: id -> row
    nextProjectId,  \* AUTO_INCREMENT of projects
    nextTaskId,     \* AUTO_INCREMENT of tasks
    resp,           \* the response sent for the last request
    body,           \* the tasks that response carries, decoded
    outstanding,    \* connections taken from the pool and not yet released
    req             \* the request being handled step by step: its position
                    \* in the handler, its inputs and its local variables

vars == <<projects, tasks, nextProjectId, nextTaskId, resp, body, outstanding, req>>

\* ------------------------------------------------------- JavaScript values
\* a || b on numbers
Or(a, b) == IF a # 0 THEN a ELSE b

\* a JavaScript number and a JavaScript string holding a decimal number
Num(n) == <<"number", n>>
Str(n) == <<"string", n>>
\* a == b: a string is converted to the number it spells
LooseEq(a, b) == a[2] = b[2]

\* JSON text is a sequence of tokens; a number's token is its decimal form.
RECURSIVE JoinNumbers(_)
JoinNumbers(s) ==
    IF s = <<>> THEN <<>>
    ELSE IF Len(s) = 1 THEN <<ToString(s[1])>>
    ELSE <<ToString(s[1]), ",">> \o JoinNumbers(Tail(s))

\* JSON.stringify of an array of numbers
JSONstringify(s) == <<"[">> \o JoinNumbers(s) \o <<"]">>

\* JSON.stringify({}), the text of the default info of a request body
EmptyObjectText == <<"{", "}">>

\* the values the handlers decode stored text to: arrays of numbers,
\* objects with number members, null
Array(s) == [kind |-> "array", value |-> s]
Object(f) == [kind |-> "object", value |-> f]
Null == [kind |-> "null", value |-> <<>>]

\* String.prototype.trim: a text without its leading and trailing white space
RECURSIVE TrimStart(_)
TrimStart(text) ==
    IF text # <<>> /\ Head(text) = " " THEN TrimStart(Tail(text)) ELSE text
RECURSIVE TrimEnd(_)
TrimEnd(text) ==
    IF text # <<>> /\ text[Len(text)] = " "
    THEN TrimEnd(SubSeq(text, 1, Len(text) - 1)) ELSE text
Trim(text) == TrimEnd(TrimStart(text))

\* JSON.parse of a text: ok is FALSE where JSON.parse throws (the text is no
\* array of numbers, no object with number members and not null); kind and
\* value are those of the value parsed.
IsNumberToken(tok) == \E n \in 0..9 : ToString(n) = tok
NumberOf(tok) == CHOOSE n \in 0..9 : ToString(n) = tok
IsKeyToken(tok) ==
    tok \notin {"[", "]", "{", "}", ",", ":", " ", "null"} /\ ~IsNumberToken(tok)
JSONparse(text) ==
    LET t == Trim(text)
        n == Len(t)
        inner == IF n >= 2 THEN SubSeq(t, 2, n - 1) ELSE <<>>
        m == Len(inner)
        isArray ==
            /\ n >= 2
            /\ t[1] = "["
            /\ t[n] = "]"
            /\ (m = 0 \/ m % 2 = 1)
            /\ \A i \in 1..m : IF i % 2 = 1 THEN IsNumberToken(inner[i])
                                             ELSE inner[i] = ","
        isObject ==
            /\ n >= 2
            /\ t[1] = "{"
            /\ t[n] = "}"
            /\ (m = 0 \/ m % 4 = 3)
            /\ \A i \in 1..m :
                  CASE i % 4 = 1 -> IsKeyToken(inner[i])
                    [] i % 4 = 2 -> inner[i] = ":"
                    [] i % 4 = 3 -> IsNumberToken(inner[i])
                    [] OTHER -> inner[i] = ","
        \* the positions of the keys, and for a key its last member
        keyAt == {i \in 1..m : i % 4 = 1}
        last(k) == CHOOSE i \in keyAt :
                       inner[i] = k /\ \A j \in keyAt : inner[j] = k => j <= i
    IN  IF isArray
        THEN [ok |-> TRUE, kind |-> "array",
              value |-> [i \in 1..((m + 1) \div 2) |-> NumberOf(inner[2 * i - 1])]]
        ELSE IF isObject
        THEN [ok |-> TRUE, kind |-> "object",
              value |-> [k \in {inner[i] : i \in keyAt} |-> NumberOf(inner[last(k) + 2])]]
        ELSE IF t = <<"null">>
        THEN [ok |-> TRUE, kind |-> "null", value |-> <<>>]
        ELSE [ok |-> FALSE, kind |-> "none", value |-> <<>>]

\* the value JSON.parse returns where it does not throw
Parsed(text) == [kind |-> JSONparse(text).kind, value |-> JSONparse(text).value]

\* safeJsonParse(jsonString, defaultValue) of a stored column, a string
safeJsonParse(jsonString, defaultValue) ==
    IF Trim(jsonString) = <<>> THEN defaultValue
    ELSE IF ~JSONparse(jsonString).ok THEN defaultValue
    ELSE IF JSONparse(jsonString).kind = "null" THEN defaultValue
    ELSE Parsed(jsonString)

\* ------------------------------------------------------------- the store
\* row.levelNID
LevelID(row, n) ==
    CASE n = 1 -> row.level1ID
      [] n = 2 -> row.level2ID
      [] n = 3 -> row.level3ID
      [] n = 4 -> row.level4ID

\* the response of a handler: HTTP status, for a success the id the request
\* named or created, and deletedCount of the DELETE /tasks/:id body
Response(op, status, id, deletedCount) ==
    [op |-> op, status |-> status, id |-> id, deletedCount |-> deletedCount]

\* no request is being handled step by step
Idle == [pc |-> "idle"]

Init ==
    /\ projects = {}
    /\ tasks = <<>>
    /\ nextProjectId = 1
    /\ nextTaskId = 1
    /\ resp = Response("none", 0, 0, 0)
    /\ body = <<>>
    /\ outstanding = 0
    /\ req = Idle

\* ---------------------------------------------------------------- projects
\* POST /projects: a body missing a required field is refused, a complete
\* one inserts a row under the next id.
CreateProject(complete) ==
    IF ~complete
    THEN /\ resp' = Response("createProject", 400, 0, 0)
         /\ body' = <<>>
         /\ UNCHANGED <<projects, tasks, nextProjectId, nextTaskId, outstanding, req>>
    ELSE /\ nextProjectId <= MaxProjects
         /\ projects' = projects \cup {nextProjectId}
         /\ nextProjectId' = nextProjectId + 1
         /\ resp' = Response("createProject", 201, nextProjectId, 0)
         /\ body' = <<>>
         /\ UNCHANGED <<tasks, nextTaskId, outstanding, req>>

\* the project delete without the delete of its tasks
TasksKeptOnProjectDelete(projectId) == tasks

\* DELETE FROM tasks WHERE projectID = ?
TasksWithoutProject(projectId) ==
    LET keep == {i \in DOMAIN tasks : tasks[i].projectID # projectId}
    IN  [i \in keep |-> tasks[i]]

\* DELETE /projects/:id: both deletes, rolled back when no project row went.
DeleteProject(projectId) ==
    IF projectId \notin projects
    THEN /\ resp' = Response("deleteProject", 404, 0, 0)
         /\ body' = <<>>
         /\ UNCHANGED <<projects, tasks, nextProjectId, nextTaskId, outstanding, req>>
    ELSE /\ tasks' = TasksWithoutProject(projectId)
         /\ projects' = projects \ {projectId}
         /\ resp' = Response("deleteProject", 200, projectId, 0)
         /\ body' = <<>>
         /\ UNCHANGED <<nextProjectId, nextTaskId, outstanding, req>>

\* -------------------------------------------------------------- POST /tasks
\* the reset of lines 326-328 applied one level too high
AncestorPointersResetAbove(parent, taskLevel) ==
    LET l1 == Or(parent.level1ID, IF parent.taskLevel = 1 THEN parent.id ELSE 0)
        l2 == Or(parent.level2ID, IF parent.taskLevel = 2 THEN parent.id ELSE 0)
        l3 == Or(parent.level3ID, IF parent.taskLevel = 3 THEN parent.id ELSE 0)
        l4 == Or(parent.level4ID, IF parent.taskLevel = 4 THEN parent.id ELSE 0)
    IN  [level1ID |-> IF taskLevel = 2 THEN 0 ELSE l1,
         level2ID |-> IF taskLevel = 3 THEN 0 ELSE l2,
         level3ID |-> IF taskLevel = 4 THEN 0 ELSE l3,
         level4ID |-> l4]

\* level1ID..level4ID of a new task under `parent` (lines 320-328)
AncestorPointers(parent, taskLevel) ==
    LET l1 == Or(parent.level1ID, IF parent.taskLevel = 1 THEN parent.id ELSE 0)
        l2 == Or(parent.level2ID, IF parent.taskLevel = 2 THEN parent.id ELSE 0)
        l3 == Or(parent.level3ID, IF parent.taskLevel = 3 THEN parent.id ELSE 0)
        l4 == Or(parent.level4ID, IF parent.taskLevel = 4 THEN parent.id ELSE 0)
    IN  [level1ID |-> l1,
         level2ID |-> IF taskLevel = 2 THEN 0 ELSE l2,
         level3ID |-> IF taskLevel = 3 THEN 0 ELSE l3,
         level4ID |-> IF taskLevel = 4 THEN 0 ELSE l4]

NoPointers == [level1ID |-> 0, level2ID |-> 0, level3ID |-> 0, level4ID |-> 0]

\* the parent lookup happens only for taskLevel > 1 with a truthy parentID
LooksUpParent(taskLevel, parentID) == taskLevel > 1 /\ parentID # 0

\* the row as inserted (lines 333-350)
InsertedRow(id, projectID, taskLevel, parentID, estHours, now) ==
    LET lv == IF LooksUpParent(taskLevel, parentID)
              THEN AncestorPointers(tasks[parentID], taskLevel)
              ELSE NoPointers
    IN  [id |-> id, projectID |-> projectID, taskLevel |-> taskLevel,
         parentID |-> Or(parentID, 0),
         level1ID |-> lv.level1ID, level2ID |-> lv.level2ID,
         level3ID |-> lv.level3ID, level4ID |-> lv.level4ID,
         status |-> 0, estHours |-> estHours,
         estPrevHours |-> JSONstringify(<<>>), info |-> EmptyObjectText,
         modifiedAt |-> now]

\* UPDATE tasks SET levelNID = id WHERE id = id, for the row's own level
SelfPointerPatch(row) ==
    IF row.taskLevel = 1 THEN [row EXCEPT !.level1ID = row.id]
    ELSE IF row.taskLevel = 2 THEN [row EXCEPT !.level2ID = row.id]
    ELSE IF row.taskLevel = 3 THEN [row EXCEPT !.level3ID = row.id]
    ELSE IF row.taskLevel = 4 THEN [row EXCEPT !.level4ID = row.id]
    ELSE row

\* the two early returns of the handler
CreateTaskRejected(projectID, taskLevel, parentID) ==
    \/ projectID \notin projects
    \/ LooksUpParent(taskLevel, parentID) /\ parentID \notin DOMAIN tasks

\* a task of a response: the row with its two JSON columns decoded
DecodedTask(row, estPrevHours, info) ==
    [row EXCEPT !.estPrevHours = estPrevHours, !.info = info]

\* the task of the 201 response (lines 390-407): a non-empty column is
\* parsed, and when either parse throws both fields are the defaults
CreateTaskDecode(row) ==
    LET throws(text) == text # <<>> /\ ~JSONparse(text).ok
        value(text, defaultValue) == IF text # <<>> THEN Parsed(text) ELSE defaultValue
    IN  IF throws(row.estPrevHours) \/ throws(row.info)
        THEN DecodedTask(row, Array(<<>>), Object(<<>>))
        ELSE DecodedTask(row, value(row.estPrevHours, Array(<<>>)),
                         value(row.info, Object(<<>>)))

CreateTask(projectID, taskLevel, parentID, estHours, now) ==
    IF projectID \notin projects
    THEN /\ resp' = Response("createTask", 404, 0, 0)
         /\ body' = <<>>
         /\ UNCHANGED <<projects, tasks, nextProjectId, nextTaskId, outstanding, req>>
    ELSE IF LooksUpParent(taskLevel, parentID) /\ parentID \notin DOMAIN tasks
    THEN /\ resp' = Response("createTask", 400, 0, 0)
         /\ body' = <<>>
         /\ UNCHANGED <<projects, tasks, nextProjectId, nextTaskId, outstanding, req>>
    ELSE /\ LET row == SelfPointerPatch(InsertedRow(nextTaskId, projectID, taskLevel,
                                                    parentID, estHours, now))
            IN  /\ tasks' = [i \in DOMAIN tasks \cup {nextTaskId} |->
                                 IF i = nextTaskId THEN row ELSE tasks[i]]
                /\ body' = <<CreateTaskDecode(row)>>
         /\ nextTaskId' = nextTaskId + 1
         /\ resp' = Response("createTask", 201, nextTaskId, 0)
         /\ UNCHANGED <<projects, nextProjectId, outstanding, req>>

\* ----------------------------------------------------------- PUT /tasks/:id
\* allowedUpdates: status stands for the twelve columns the handler copies
\* from the body unchanged, estHours is the one with the history rule.
allowedUpdates == {"status", "estHours"}
\* fields a request body may carry: the allow-listed ones and columns
\* outside the list
BodyFields == allowedUpdates \cup {"taskLevel"}
\* partial updates: a value for each field of a subset of BodyFields (the
\* taskLevel a body carries is 0, the level of no task of these runs)
UpdateBodies ==
    {b \in UNION {[S -> {0, 1}] : S \in SUBSET BodyFields} :
        "taskLevel" \in DOMAIN b => b["taskLevel"] = 0}

\* the loop of lines 497-507 over the body's fields instead of allowedUpdates
UpdateFieldsOfBody(row, updates) ==
    DOMAIN updates
        \cup (IF "estHours" \in DOMAIN updates /\ row.taskLevel > 1
              THEN {"estPrevHours"} ELSE {})

\* the columns the UPDATE statement sets: updateFields without modifiedAt
UpdateFields(row, updates) ==
    (allowedUpdates \cap DOMAIN updates)
        \cup (IF "estHours" \in DOMAIN updates /\ row.taskLevel > 1
              THEN {"estPrevHours"} ELSE {})

\* the previous estimate appended to the stored history
HistoryValueAppended(row, updates) ==
    JSONstringify(JSONparse(row.estPrevHours).value \o <<row.estHours>>)

\* estPrevHours = JSON.stringify([currentTask.estHours])
HistoryValue(row, updates) == JSONstringify(<<row.estHours>>)

\* the row after UPDATE tasks SET ... WHERE id = ?
UpdatedRow(row, updates, now) ==
    LET set == UpdateFields(row, updates)
    IN  [f \in DOMAIN row |->
            IF f = "modifiedAt" THEN now
            ELSE IF f = "estPrevHours" /\ f \in set THEN HistoryValue(row, updates)
            ELSE IF f \in set THEN updates[f]
            ELSE row[f]]

\* info || '{}'
InfoOrEmptyObject(info) == IF info # <<>> THEN info ELSE EmptyObjectText

\* the decode after the commit (lines 546-554): JSON.parse of both columns,
\* which are strings, outside any try of its own
UpdateTaskDecodeThrows(row) ==
    ~JSONparse(row.estPrevHours).ok \/ ~JSONparse(InfoOrEmptyObject(row.info)).ok
UpdateTaskDecode(row) ==
    DecodedTask(row, Parsed(row.estPrevHours), Parsed(InfoOrEmptyObject(row.info)))

\* PUT /tasks/:id.  The UPDATE is committed before the row is decoded for
\* the response: a decode that throws is answered 500 by the catch, whose
\* rollback finds no open transaction.
UpdateTask(taskId, updates, now) ==
    IF taskId \notin DOMAIN tasks
    THEN /\ resp' = Response("updateTask", 404, 0, 0)
         /\ body' = <<>>
         /\ UNCHANGED <<projects, tasks, nextProjectId, nextTaskId, outstanding, req>>
    ELSE IF UpdateFields(tasks[taskId], updates) = {}
    THEN /\ resp' = Response("updateTask", 400, 0, 0)
         /\ body' = <<>>
         /\ UNCHANGED <<projects, tasks, nextProjectId, nextTaskId, outstanding, req>>
    ELSE LET row == UpdatedRow(tasks[taskId], updates, now)
         IN  /\ tasks' = [tasks EXCEPT ![taskId] = row]
             /\ IF UpdateTaskDecodeThrows(row)
                THEN /\ resp' = Response("updateTask", 500, 0, 0)
                     /\ body' = <<>>
                ELSE /\ resp' = Response("updateTask", 200, taskId, 0)
                     /\ body' = <<UpdateTaskDecode(row)>>
             /\ UNCHANGED <<projects, nextProjectId, nextTaskId, outstanding, req>>

\* -------------------------------------------------------- DELETE /tasks/:id
\* the ids of a set of rows in ascending order
RECURSIVE SortedIds(_)
SortedIds(S) ==
    IF S = {} THEN <<>>
    ELSE LET m == CHOOSE x \in S : \A y \in S : x <= y
         IN  <<m>> \o SortedIds(S \ {m})

\* SELECT id, levelNID FROM tasks WHERE projectID = ?, in primary-key order
AllTasks(projectId) ==
    LET ids == SortedIds({i \in DOMAIN tasks : tasks[i].projectID = projectId})
    IN  [k \in 1..Len(ids) |-> tasks[ids[k]]]

\* first pass (lines 604-608): rows whose levelNID == taskId, the path string
RECURSIVE FirstPass(_, _, _, _)
FirstPass(rows, n, taskId, ids) ==
    IF rows = <<>> THEN ids
    ELSE LET task == Head(rows)
         IN  FirstPass(Tail(rows), n, taskId,
                       IF LooseEq(Num(LevelID(task, n)), taskId)
                       THEN ids \cup {Num(task.id)} ELSE ids)

\* one forEach of the do/while (lines 614-618): Set.has compares by value
\* and type
RECURSIVE ClosurePass(_, _, _)
ClosurePass(rows, n, ids) ==
    IF rows = <<>> THEN ids
    ELSE LET task == Head(rows)
         IN  ClosurePass(Tail(rows), n,
                         IF Num(LevelID(task, n)) \in ids /\ Num(task.id) \notin ids
                         THEN ids \cup {Num(task.id)} ELSE ids)

\* do { ... } while (currentSize !== idsToDelete.size)
RECURSIVE Closure(_, _, _)
Closure(rows, n, ids) ==
    LET next == ClosurePass(rows, n, ids)
    IN  IF Cardinality(next) = Cardinality(ids) THEN next
        ELSE Closure(rows, n, next)

\* idsToDelete for the stored task taskId (a path parameter: a string)
IdsToDelete(taskId) ==
    LET taskToDelete == tasks[taskId]
        rows == AllTasks(taskToDelete.projectID)
        n == taskToDelete.taskLevel
    IN  Closure(rows, n, FirstPass(rows, n, Str(taskId), {Str(taskId)}))

\* DELETE FROM tasks WHERE id IN (?): the server compares the column with
\* each listed value as a number
TasksWithout(ids) ==
    LET gone == {v[2] : v \in ids}
    IN  [i \in DOMAIN tasks \ gone |-> tasks[i]]

DeleteTask(taskId) ==
    IF taskId \notin DOMAIN tasks
    THEN /\ resp' = Response("deleteTask", 404, 0, 0)
         /\ body' = <<>>
         /\ UNCHANGED <<projects, tasks, nextProjectId, nextTaskId, outstanding, req>>
    ELSE IF tasks[taskId].taskLevel \notin 1..NumLevels
    THEN /\ resp' = Response("deleteTask", 400, 0, 0)
         /\ body' = <<>>
         /\ UNCHANGED <<projects, tasks, nextProjectId, nextTaskId, outstanding, req>>
    ELSE /\ tasks' = TasksWithout(IdsToDelete(taskId))
         /\ resp' = Response("deleteTask", 200, taskId,
                             Cardinality(IdsToDelete(taskId)))
         /\ body' = <<>>
         /\ UNCHANGED <<projects, nextProjectId, nextTaskId, outstanding, req>>

\* ------------------------------------------------------------------- reads
\* the fields of a task of a response that a row does not have
ChildFields == {"subtasks", "actionItems", "subactionItems"}

\* buildTaskHierarchy with the children of every level under `subtasks`
RECURSIVE buildTaskHierarchyOneField(_, _, _)
buildTaskHierarchyOneField(allTasks, parentId, level) ==
    LET atLevel(task) == task.parentID = parentId /\ task.taskLevel = level
        tasksAtLevel == SelectSeq(allTasks, atLevel)
        taskData(task) ==
            [f \in DOMAIN task \cup {"subtasks"} |->
                CASE f = "id" -> ToString(task.id)
                  [] f = "estPrevHours" -> safeJsonParse(task.estPrevHours, Array(<<>>))
                  [] f = "info" -> safeJsonParse(task.info, Object(<<>>))
                  [] f = "subtasks" ->
                        IF level < NumLevels
                        THEN buildTaskHierarchyOneField(allTasks, task.id, level + 1)
                        ELSE <<>>
                  [] OTHER -> task[f]]
    IN  [k \in 1..Len(tasksAtLevel) |-> taskData(tasksAtLevel[k])]

\* buildTaskHierarchy recursing from every level, the fourth included
RECURSIVE buildTaskHierarchyAnyLevel(_, _, _)
buildTaskHierarchyAnyLevel(allTasks, parentId, level) ==
    LET atLevel(task) == task.parentID = parentId /\ task.taskLevel = level
        tasksAtLevel == SelectSeq(allTasks, atLevel)
        taskData(task) ==
            [f \in DOMAIN task \cup {"subtasks"} |->
                CASE f = "id" -> ToString(task.id)
                  [] f = "estPrevHours" -> safeJsonParse(task.estPrevHours, Array(<<>>))
                  [] f = "info" -> safeJsonParse(task.info, Object(<<>>))
                  [] f = "subtasks" -> <<>>
                  [] OTHER -> task[f]]
        withChildren(task) ==
            IF level = 1
            THEN [taskData(task) EXCEPT
                      !.subtasks = buildTaskHierarchyAnyLevel(allTasks, task.id, 2)]
            ELSE IF level = 2
            THEN ("actionItems" :> buildTaskHierarchyAnyLevel(allTasks, task.id, 3))
                     @@ taskData(task)
            ELSE ("subactionItems" :>
                      buildTaskHierarchyAnyLevel(allTasks, task.id, level + 1))
                     @@ taskData(task)
    IN  [k \in 1..Len(tasksAtLevel) |-> withChildren(tasksAtLevel[k])]

\* buildTaskHierarchy(parentId, level) over the rows allTasks (lines
\* 193-222): the rows with task.parentID == parentId && task.taskLevel ===
\* level, in the order of allTasks, each with its id as a string, its JSON
\* columns decoded, an empty subtasks and the children of the next level
\* under the field of its level
RECURSIVE buildTaskHierarchy(_, _, _)
buildTaskHierarchy(allTasks, parentId, level) ==
    LET atLevel(task) == task.parentID = parentId /\ task.taskLevel = level
        tasksAtLevel == SelectSeq(allTasks, atLevel)
        taskData(task) ==
            [f \in DOMAIN task \cup {"subtasks"} |->
                CASE f = "id" -> ToString(task.id)
                  [] f = "estPrevHours" -> safeJsonParse(task.estPrevHours, Array(<<>>))
                  [] f = "info" -> safeJsonParse(task.info, Object(<<>>))
                  [] f = "subtasks" -> <<>>
                  [] OTHER -> task[f]]
        withChildren(task) ==
            IF level = 1
            THEN [taskData(task) EXCEPT
                      !.subtasks = buildTaskHierarchy(allTasks, task.id, 2)]
            ELSE IF level = 2
            THEN ("actionItems" :> buildTaskHierarchy(allTasks, task.id, 3))
                     @@ taskData(task)
            ELSE IF level = 3
            THEN ("subactionItems" :> buildTaskHierarchy(allTasks, task.id, 4))
                     @@ taskData(task)
            ELSE taskData(task)
    IN  [k \in 1..Len(tasksAtLevel) |-> withChildren(tasksAtLevel[k])]

\* PUT /projects/:id: 400 for a body with no allow-listed field, 404 when the
\* UPDATE affected no row, else the project with the tree of its tasks (the
\* columns the UPDATE sets are not part of the model of a project row)
UpdateProject(projectId, anyField) ==
    /\ IF ~anyField
       THEN /\ resp' = Response("updateProject", 400, 0, 0)
            /\ body' = <<>>
       ELSE IF projectId \notin projects
       THEN /\ resp' = Response("updateProject", 404, 0, 0)
            /\ body' = <<>>
       ELSE /\ resp' = Response("updateProject", 200, projectId, 0)
            /\ body' = buildTaskHierarchy(AllTasks(projectId), 0, 1)
    /\ UNCHANGED <<projects, tasks, nextProjectId, nextTaskId, outstanding, req>>

\* a task of GET /tasks/project/:projectId (lines 437-452): a non-empty
\* column goes through safeJsonParse, an empty one is the default
ListTaskDecode(task) ==
    DecodedTask(task,
                IF task.estPrevHours # <<>>
                THEN safeJsonParse(task.estPrevHours, Array(<<>>)) ELSE Array(<<>>),
                IF task.info # <<>>
                THEN safeJsonParse(task.info, Object(<<>>)) ELSE Object(<<>>))

\* GET /tasks/project/:projectId: 404 for no project row, else the decoded
\* rows of the project
ListTasks(projectId) ==
    /\ IF projectId \notin projects
       THEN /\ resp' = Response("listTasks", 404, 0, 0)
            /\ body' = <<>>
       ELSE /\ resp' = Response("listTasks", 200, projectId, 0)
            /\ body' = [k \in 1..Len(AllTasks(projectId)) |->
                           ListTaskDecode(AllTasks(projectId)[k])]
    /\ UNCHANGED <<projects, tasks, nextProjectId, nextTaskId, outstanding, req>>

\* ------------------------------------------------------------ specification
\* Requests are handled one at a time, each in its own transaction.  An
\* insert is taken only while the counter is within `cap`.
CreateTaskWithin(cap, projectID, taskLevel, parentID, estHours, now) ==
    /\ CreateTaskRejected(projectID, taskLevel, parentID) \/ nextTaskId <= cap
    /\ CreateTask(projectID, taskLevel, parentID, estHours, now)

\* The project and task lifecycle: every taskLevel, parentID and projectID.
Next ==
    \/ \E complete \in BOOLEAN : CreateProject(complete)
    \/ \E projectId \in ProjectIdInputs : DeleteProject(projectId)
    \/ \E projectID \in ProjectIdInputs, taskLevel \in LevelInputs,
          parentID \in TaskIdInputs :
            CreateTaskWithin(MaxTasks, projectID, taskLevel, parentID, 0, 1)
    \/ \E taskId \in TaskIdInputs : DeleteTask(taskId)

Spec == Init /\ [][Next]_vars

\* One project exists (the state after POST /projects on the empty store).
InitOneProject ==
    /\ projects = {1}
    /\ tasks = <<>>
    /\ nextProjectId = 2
    /\ nextTaskId = 1
    /\ resp = Response("createProject", 201, 1, 0)
    /\ body = <<>>
    /\ outstanding = 0
    /\ req = Idle

\* Partial updates in one project: a root task (level 1, no parent) or a
\* subtask of task 1 (level 2) is created at time 1 with the default
\* estHours, and tasks are updated at time 2.
NextUpdate ==
    \/ \E shape \in {<<1, 0>>, <<2, 1>>} :
            CreateTaskWithin(MaxTasks, 1, shape[1], shape[2], 0, 1)
    \/ \E taskId \in TaskIdInputs, updates \in UpdateBodies :
            UpdateTask(taskId, updates, 2)

SpecUpdate == InitOneProject /\ [][NextUpdate]_vars

\* Creation and deletion of up to MaxChainTasks tasks of levels 1 and 2 in
\* one project.
NextChain ==
    \/ \E taskLevel \in {1, 2}, parentID \in 0..MaxChainTasks :
            CreateTaskWithin(MaxChainTasks, 1, taskLevel, parentID, 0, 1)
    \/ \E taskId \in 0..MaxChainTasks : DeleteTask(taskId)

SpecChain == InitOneProject /\ [][NextChain]_vars

\* Projects with tasks of levels 1 and 2: the requests of Next with
\* taskLevel 1 or 2.
NextProjects ==
    \/ \E complete \in BOOLEAN : CreateProject(complete)
    \/ \E projectId \in ProjectIdInputs : DeleteProject(projectId)
    \/ \E projectID \in ProjectIdInputs, taskLevel \in {1, 2},
          parentID \in TaskIdInputs :
            CreateTaskWithin(MaxTasks, projectID, taskLevel, parentID, 0, 1)
    \/ \E taskId \in TaskIdInputs : DeleteTask(taskId)

SpecProjects == Init /\ [][NextProjects]_vars

\* Rows written by earlier versions of the handlers: the text a row holds
\* in estPrevHours and info is well-formed JSON, cut short, empty or blank.
LegacyEstPrevHours ==
    {JSONstringify(<<>>), JSONstringify(<<1>>), <<"[", "1">>, <<>>, <<" ">>}
LegacyInfo ==
    {EmptyObjectText, <<"{", "a", ":", "1", "}">>, <<"{">>, <<>>, <<" ">>}

\* One project with a root task as POST /tasks stores it and a subtask of
\* it whose estPrevHours and info are legacy texts.
InitLegacy ==
    /\ projects = {1}
    /\ nextProjectId = 2
    /\ nextTaskId = 3
    /\ resp = Response("none", 0, 0, 0)
    /\ body = <<>>
    /\ outstanding = 0
    /\ req = Idle
    /\ \E estPrevHours \in LegacyEstPrevHours, info \in LegacyInfo :
          LET root == SelfPointerPatch(InsertedRow(1, 1, 1, 0, 0, 1))
              lv == AncestorPointers(root, 2)
              subtask == SelfPointerPatch(
                  [root EXCEPT !.id = 2, !.taskLevel = 2, !.parentID = 1,
                               !.level1ID = lv.level1ID, !.level2ID = lv.level2ID,
                               !.level3ID = lv.level3ID, !.level4ID = lv.level4ID,
                               !.estPrevHours = estPrevHours, !.info = info])
          IN  tasks = <<root, subtask>>

\* The handlers that decode tasks, over the legacy rows and one more subtask
\* of task 1.
NextDecode ==
    \/ CreateTaskWithin(3, 1, 2, 1, 0, 1)
    \/ \E taskId \in 0..2, updates \in UpdateBodies : UpdateTask(taskId, updates, 2)
    \/ \E projectId \in StepProjectIds : ListTasks(projectId)
    \/ \E projectId \in StepProjectIds, anyField \in BOOLEAN :
            UpdateProject(projectId, anyField)

SpecDecode == InitLegacy /\ [][NextDecode]_vars

\* The requests that write the store, taken one at a time, and the project
\* update that answers with the tree of the project's tasks.
NextStore ==
    \/ Next
    \/ \E projectId \in ProjectIdInputs, anyField \in BOOLEAN :
            UpdateProject(projectId, anyField)

SpecStore == Init /\ [][NextStore]_vars

\* ------------------------------------------- the tree of a project's rows
\* the level of row i of a forest given by its parent links, NumLevels + 1
\* when the links from i do not end at a root within NumLevels rows
RECURSIVE LevelOf(_, _, _)
LevelOf(parent, i, fuel) ==
    IF parent[i] = 0 THEN 1
    ELSE IF fuel = 1 THEN NumLevels + 1
    ELSE 1 + LevelOf(parent, parent[i], fuel - 1)

\* parent links that make a forest of at most NumLevels levels
WellFormed(parent) ==
    \A i \in DOMAIN parent : LevelOf(parent, i, NumLevels) <= NumLevels

\* a stored row of project 1 with the given place in the forest
TreeRow(id, taskLevel, parentID) ==
    [id |-> id, projectID |-> 1, taskLevel |-> taskLevel, parentID |-> parentID,
     level1ID |-> 0, level2ID |-> 0, level3ID |-> 0, level4ID |-> 0,
     status |-> 0, estHours |-> 0,
     estPrevHours |-> JSONstringify(<<>>), info |-> EmptyObjectText,
     modifiedAt |-> 1]

\* PUT /projects/:id after its SELECT * FROM tasks WHERE projectID = ? (line
\* 190): the project's rows are a well-formed forest, and allTasks holds
\* them in the order the server returned them, which no ORDER BY fixes.
InitTree ==
    /\ projects = {1}
    /\ nextProjectId = 2
    /\ resp = Response("none", 0, 0, 0)
    /\ body = <<>>
    /\ outstanding = 0
    /\ \E n \in 0..MaxTreeTasks :
          \E parent \in [1..n -> 0..n] :
             /\ WellFormed(parent)
             /\ \E order \in [1..n -> 1..n] :
                   /\ \A j, k \in 1..n : order[j] = order[k] => j = k
                   /\ nextTaskId = n + 1
                   /\ tasks = [i \in 1..n |->
                                  TreeRow(i, LevelOf(parent, i, NumLevels), parent[i])]
                   /\ req = [pc |-> "buildTaskHierarchy", op |-> "updateProject",
                             allTasks |-> [k \in 1..n |->
                                  TreeRow(order[k],
                                          LevelOf(parent, order[k], NumLevels),
                                          parent[order[k]])]]

\* lines 225-231: the response carries buildTaskHierarchy() of allTasks
TreeOfRows ==
    /\ req.pc = "buildTaskHierarchy"
    /\ body' = buildTaskHierarchy(req.allTasks, 0, 1)
    /\ resp' = Response("updateProject", 200, 1, 0)
    /\ req' = [req EXCEPT !.pc = "respond"]
    /\ UNCHANGED <<projects, tasks, nextProjectId, nextTaskId, outstanding>>

NextTree == TreeOfRows

SpecTree == InitTree /\ [][NextTree]_vars

\* PUT /projects/:id after its SELECT over rows of any shape: one row for
\* each taskLevel from 1 to NumLevels + 1, the parentID of each any id, of
\* a row (itself included) or of none, so that the links may form cycles.
AnyListIds == 1..(NumLevels + 1)
InitAnyList ==
    /\ projects = {1}
    /\ nextProjectId = 2
    /\ nextTaskId = NumLevels + 2
    /\ resp = Response("none", 0, 0, 0)
    /\ body = <<>>
    /\ outstanding = 0
    /\ \E parent \in [AnyListIds -> 0..(NumLevels + 2)] :
          /\ tasks = [i \in AnyListIds |-> TreeRow(i, i, parent[i])]
          /\ req = [pc |-> "buildTaskHierarchy", op |-> "updateProject",
                    allTasks |-> [i \in AnyListIds |-> TreeRow(i, i, parent[i])]]

\* The builder is synchronous code: once called it runs.
SpecAnyList == InitAnyList /\ [][NextTree]_vars /\ WF_vars(NextTree)

\* ------------------------------ the closure of DELETE /tasks/:id, by pass
\* a row of SELECT id, levelNID FROM tasks WHERE projectID = ? (line 599)
ScannedRow(id, n, pointer) ==
    CASE n = 1 -> [id |-> id, level1ID |-> pointer]
      [] n = 2 -> [id |-> id, level2ID |-> pointer]
      [] n = 3 -> [id |-> id, level3ID |-> pointer]
      [] n = 4 -> [id |-> id, level4ID |-> pointer]

\* The handler at line 601: the task to delete is one of the scanned rows,
\* and the levelNID of a row is any id, of a row or of none.  passes counts
\* the forEach loops run so far.
InitClosure ==
    /\ projects = {1}
    /\ nextProjectId = 2
    /\ resp = Response("none", 0, 0, 0)
    /\ body = <<>>
    /\ outstanding = 0
    /\ tasks = <<>>
    /\ \E rows \in 1..MaxClosureRows :
          /\ nextTaskId = rows + 1
          /\ \E taskId \in 1..rows, n \in 1..NumLevels,
                pointer \in [1..rows -> 0..(rows + 1)] :
                req = [pc |-> "firstPass", op |-> "deleteTask",
                       taskId |-> Str(taskId), targetField |-> n,
                       allTasks |-> [i \in 1..rows |-> ScannedRow(i, n, pointer[i])],
                       idsToDelete |-> {Str(taskId)},
                       passes |-> 0]

\* lines 604-608
ClosureFirstPass ==
    /\ req.pc = "firstPass"
    /\ req' = [req EXCEPT
                  !.pc = "doWhile",
                  !.idsToDelete = FirstPass(req.allTasks, req.targetField,
                                            req.taskId, req.idsToDelete),
                  !.passes = @ + 1]
    /\ UNCHANGED <<projects, tasks, nextProjectId, nextTaskId, resp, body, outstanding>>

\* one iteration of the do/while that leaves the loop whatever it added
ClosureDoWhileOnce ==
    /\ req.pc = "doWhile"
    /\ req' = [req EXCEPT
                  !.pc = "delete",
                  !.idsToDelete = ClosurePass(req.allTasks, req.targetField,
                                              req.idsToDelete),
                  !.passes = @ + 1]
    /\ UNCHANGED <<projects, tasks, nextProjectId, nextTaskId, resp, body, outstanding>>

\* one iteration of the do/while (lines 612-619)
ClosureDoWhile ==
    /\ req.pc = "doWhile"
    /\ LET currentSize == Cardinality(req.idsToDelete)
           idsToDelete == ClosurePass(req.allTasks, req.targetField,
                                      req.idsToDelete)
       IN  req' = [req EXCEPT
                     !.pc = IF currentSize # Cardinality(idsToDelete)
                            THEN "doWhile" ELSE "delete",
                     !.idsToDelete = idsToDelete,
                     !.passes = @ + 1]
    /\ UNCHANGED <<projects, tasks, nextProjectId, nextTaskId, resp, body, outstanding>>

NextClosure ==
    \/ ClosureFirstPass
    \/ ClosureDoWhile

\* The loops are synchronous code: an iteration that can run does run.
SpecClosure == InitClosure /\ [][NextClosure]_vars /\ WF_vars(NextClosure)

\* ------------------------------------------- the handlers, step by step
\* The handlers that run in a transaction, one `await` at a time.  req holds
\* the handler's position (pc), its inputs (args), its local variables, the
\* tables as the open transaction sees them (txTasks, txProjects) and, for
\* the record, the committed store the request found (before); the
\* committed store changes at the commit alone.  One request is handled at
\* a time, so every read of a transaction that has written nothing yet sees
\* the committed store.
At(op, pc) == req.pc = pc /\ req.op = op
Goto(pc) == [req EXCEPT !.pc = pc]

\* the `await connection.query` the handler is at
QueryPcs ==
    {"selectProject", "selectParent", "insert", "patch", "select",
     "selectTask", "update", "reselect", "scan", "delete",
     "deleteTasks", "deleteProject"}

\* the first statement of each handler after beginTransaction
FirstQuery(op) ==
    CASE op = "createTask" -> "selectProject"
      [] op = "updateTask" -> "selectTask"
      [] op = "deleteTask" -> "selectTask"
      [] op = "deleteProject" -> "deleteTasks"

\* pool.getConnection(): the handler starts with a connection of its own
Receive(op, args) ==
    /\ req = Idle
    /\ outstanding' = outstanding + 1
    /\ req' = [pc |-> "beginTransaction", op |-> op, args |-> args,
               before |-> <<projects, tasks>>,
               txTasks |-> tasks, txProjects |-> projects,
               wrote |-> FALSE, status |-> 0, newTaskId |-> 0, idsToDelete |-> {}]
    /\ UNCHANGED <<projects, tasks, nextProjectId, nextTaskId, resp, body>>

\* connection.beginTransaction()
BeginTransaction ==
    /\ req.pc = "beginTransaction"
    /\ req' = [req EXCEPT !.pc = FirstQuery(req.op),
                          !.txTasks = tasks, !.txProjects = projects]
    /\ UNCHANGED <<projects, tasks, nextProjectId, nextTaskId, resp, body, outstanding>>

\* a step of the handler that touches nothing but req
Local(next) ==
    /\ req' = next
    /\ UNCHANGED <<projects, tasks, nextProjectId, nextTaskId, resp, body, outstanding>>

\* `await connection.rollback(); return res.status(status)...`
ReturnAfterRollback(status) == [req EXCEPT !.pc = "rollback", !.status = status]

\* POST /tasks, line 296: SELECT id FROM projects WHERE id = ?
CreateTaskSelectProject ==
    /\ At("createTask", "selectProject")
    /\ Local(IF req.args.projectID \notin req.txProjects
             THEN ReturnAfterRollback(404)
             ELSE IF LooksUpParent(req.args.taskLevel, req.args.parentID)
             THEN Goto("selectParent")
             ELSE Goto("insert"))

\* POST /tasks, line 307: SELECT ... FROM tasks WHERE id = parentID
CreateTaskSelectParent ==
    /\ At("createTask", "selectParent")
    /\ Local(IF req.args.parentID \notin DOMAIN req.txTasks
             THEN ReturnAfterRollback(400)
             ELSE Goto("insert"))

\* POST /tasks, line 333: the INSERT.  The id it takes from the counter is
\* not given back by a rollback.
CreateTaskInsert ==
    /\ At("createTask", "insert")
    /\ LET row == InsertedRow(nextTaskId, req.args.projectID, req.args.taskLevel,
                              req.args.parentID, 0, 1)
       IN  req' = [req EXCEPT !.pc = "patch", !.wrote = TRUE,
                              !.newTaskId = nextTaskId,
                              !.txTasks = [i \in DOMAIN req.txTasks \cup {nextTaskId} |->
                                              IF i = nextTaskId THEN row
                                              ELSE req.txTasks[i]]]
    /\ nextTaskId' = nextTaskId + 1
    /\ UNCHANGED <<projects, tasks, nextProjectId, resp, body, outstanding>>

\* POST /tasks, lines 355-379: UPDATE tasks SET levelNID = id WHERE id = id
\* (no statement for a taskLevel outside 1..4)
CreateTaskPatch ==
    /\ At("createTask", "patch")
    /\ Local([req EXCEPT !.pc = "select",
                         !.txTasks[req.newTaskId] = SelfPointerPatch(@)])

\* POST /tasks, line 382: SELECT * FROM tasks WHERE id = newTaskId; no row
\* found is thrown to the catch
CreateTaskSelect ==
    /\ At("createTask", "select")
    /\ Local(IF req.newTaskId \in DOMAIN req.txTasks THEN Goto("commit")
             ELSE Goto("catch"))

\* PUT /tasks/:id, lines 481-518: SELECT * FROM tasks WHERE id = ?, then the
\* update fields are built from the body
UpdateTaskSelect ==
    /\ At("updateTask", "selectTask")
    /\ Local(IF req.args.taskId \notin DOMAIN req.txTasks
             THEN ReturnAfterRollback(404)
             ELSE IF UpdateFields(req.txTasks[req.args.taskId], req.args.updates) = {}
             THEN ReturnAfterRollback(400)
             ELSE Goto("update"))

\* PUT /tasks/:id, line 533: the UPDATE
UpdateTaskUpdate ==
    /\ At("updateTask", "update")
    /\ Local([req EXCEPT !.pc = "reselect", !.wrote = TRUE,
                         !.txTasks[req.args.taskId] =
                             UpdatedRow(@, req.args.updates, 2)])

\* PUT /tasks/:id, lines 536-541: SELECT * FROM tasks WHERE id = ?
UpdateTaskReselect ==
    /\ At("updateTask", "reselect")
    /\ Local(IF req.args.taskId \notin DOMAIN req.txTasks
             THEN ReturnAfterRollback(404)
             ELSE Goto("commit"))

\* the handler without its lookup: the id goes to the DELETE as it came
DeleteTaskSelectSkipped ==
    /\ At("deleteTask", "selectTask")
    /\ Local([req EXCEPT !.pc = "delete", !.idsToDelete = {Str(req.args.taskId)}])

\* DELETE /tasks/:id, lines 575-596: SELECT * FROM tasks WHERE id = ?, then
\* the level's column is looked up in levelMap
DeleteTaskSelect ==
    /\ At("deleteTask", "selectTask")
    /\ Local(IF req.args.taskId \notin DOMAIN req.txTasks
             THEN ReturnAfterRollback(404)
             ELSE IF req.txTasks[req.args.taskId].taskLevel \notin 1..NumLevels
             THEN ReturnAfterRollback(400)
             ELSE Goto("scan"))

\* DELETE /tasks/:id, lines 599-619: the scan of the project's rows and the
\* closure over them
DeleteTaskScan ==
    /\ At("deleteTask", "scan")
    /\ Local([req EXCEPT !.pc = "delete",
                         !.idsToDelete = IdsToDelete(req.args.taskId)])

\* DELETE /tasks/:id, line 625: DELETE FROM tasks WHERE id IN (?)
DeleteTaskDelete ==
    /\ At("deleteTask", "delete")
    /\ Local([req EXCEPT !.pc = "commit", !.wrote = TRUE,
                         !.txTasks = TasksWithout(req.idsToDelete)])

\* DELETE /projects/:id, line 248: DELETE FROM tasks WHERE projectID = ?
DeleteProjectDeleteTasks ==
    /\ At("deleteProject", "deleteTasks")
    /\ Local([req EXCEPT !.pc = "deleteProject", !.wrote = TRUE,
                         !.txTasks = TasksWithoutProject(req.args.projectId)])

\* the project delete without the test of affectedRows
DeleteProjectDeleteProjectUnchecked ==
    /\ At("deleteProject", "deleteProject")
    /\ Local([req EXCEPT !.pc = "commit", !.txProjects = @ \ {req.args.projectId}])

\* DELETE /projects/:id, lines 251-256: DELETE FROM projects WHERE id = ?,
\* and the early return when it affected no row
DeleteProjectDeleteProject ==
    /\ At("deleteProject", "deleteProject")
    /\ LET affectedRows == Cardinality(req.txProjects \cap {req.args.projectId})
           deleted == [req EXCEPT !.txProjects = @ \ {req.args.projectId}]
       IN  Local(IF affectedRows = 0
                 THEN [deleted EXCEPT !.pc = "rollback", !.status = 404]
                 ELSE [deleted EXCEPT !.pc = "commit"])

\* a connection.query of the handler throws
QueryThrows ==
    /\ req.pc \in QueryPcs
    /\ Local(Goto("catch"))

\* the early returns: connection.rollback() drops what the transaction
\* wrote, then the 404 or 400 is sent
Rollback ==
    /\ req.pc = "rollback"
    /\ req' = [req EXCEPT !.pc = "finally", !.txTasks = tasks, !.txProjects = projects]
    /\ resp' = Response(req.op, req.status, 0, 0)
    /\ body' = <<>>
    /\ UNCHANGED <<projects, tasks, nextProjectId, nextTaskId, outstanding>>

\* connection.commit(): the tables as the transaction sees them become the
\* committed store
Commit ==
    /\ req.pc = "commit"
    /\ tasks' = req.txTasks
    /\ projects' = req.txProjects
    /\ req' = Goto("respond")
    /\ UNCHANGED <<nextProjectId, nextTaskId, resp, body, outstanding>>

\* the response after the commit
Respond ==
    /\ req.pc = "respond"
    /\ CASE req.op = "createTask" ->
              /\ resp' = Response("createTask", 201, req.newTaskId, 0)
              /\ body' = <<CreateTaskDecode(tasks[req.newTaskId])>>
              /\ req' = Goto("finally")
         [] req.op = "updateTask" ->
              IF UpdateTaskDecodeThrows(tasks[req.args.taskId])
              THEN /\ req' = Goto("catch")
                   /\ UNCHANGED <<resp, body>>
              ELSE /\ resp' = Response("updateTask", 200, req.args.taskId, 0)
                   /\ body' = <<UpdateTaskDecode(tasks[req.args.taskId])>>
                   /\ req' = Goto("finally")
         [] req.op = "deleteTask" ->
              /\ resp' = Response("deleteTask", 200, req.args.taskId,
                                  Cardinality(req.idsToDelete))
              /\ body' = <<>>
              /\ req' = Goto("finally")
         [] req.op = "deleteProject" ->
              /\ resp' = Response("deleteProject", 200, req.args.projectId, 0)
              /\ body' = <<>>
              /\ req' = Goto("finally")
    /\ UNCHANGED <<projects, tasks, nextProjectId, nextTaskId, outstanding>>

\* the catch without its rollback: the connection goes back to the pool with
\* the transaction open, and what it wrote is committed with it
CatchWithoutRollback ==
    /\ req.pc = "catch"
    /\ req' = Goto("finally")
    /\ tasks' = req.txTasks
    /\ projects' = req.txProjects
    /\ resp' = Response(req.op, 500, 0, 0)
    /\ body' = <<>>
    /\ UNCHANGED <<nextProjectId, nextTaskId, outstanding>>

\* catch (error): connection.rollback(), then the 500
Catch ==
    /\ req.pc = "catch"
    /\ req' = [req EXCEPT !.pc = "finally", !.txTasks = tasks, !.txProjects = projects]
    /\ resp' = Response(req.op, 500, 0, 0)
    /\ body' = <<>>
    /\ UNCHANGED <<projects, tasks, nextProjectId, nextTaskId, outstanding>>

\* finally: connection.release()
Finally ==
    /\ req.pc = "finally"
    /\ outstanding' = outstanding - 1
    /\ req' = Idle
    /\ UNCHANGED <<projects, tasks, nextProjectId, nextTaskId, resp, body>>

\* connection.beginTransaction() throws
BeginTransactionThrows ==
    /\ req.pc = "beginTransaction"
    /\ Local(Goto("catch"))

\* connection.commit() throws: the store has committed the transaction and
\* the acknowledgement is lost (applied), or it has not
CommitThrows(applied) ==
    /\ req.pc = "commit"
    /\ tasks' = IF applied THEN req.txTasks ELSE tasks
    /\ projects' = IF applied THEN req.txProjects ELSE projects
    /\ req' = Goto("catch")
    /\ UNCHANGED <<nextProjectId, nextTaskId, resp, body, outstanding>>

\* the release as the last statement of the catch instead of a finally: a
\* rollback that throws in the catch leaves the handler before it
RollbackThrowsPastRelease ==
    /\ req.pc \in {"rollback", "catch"}
    /\ req' = IF req.pc = "rollback"
              THEN [req EXCEPT !.pc = "catch", !.txTasks = tasks, !.txProjects = projects]
              ELSE Idle
    /\ resp' = IF req.pc = "catch" THEN Response(req.op, 0, 0, 0) ELSE resp
    /\ body' = IF req.pc = "catch" THEN <<>> ELSE body
    /\ UNCHANGED <<projects, tasks, nextProjectId, nextTaskId, outstanding>>

\* connection.rollback() throws (the connection is lost, and the store
\* drops the open transaction): in an early return the catch is next, in
\* the catch the handler ends without a response
RollbackThrows ==
    /\ req.pc \in {"rollback", "catch"}
    /\ req' = [req EXCEPT !.pc = IF req.pc = "rollback" THEN "catch" ELSE "finally",
                          !.txTasks = tasks, !.txProjects = projects]
    /\ resp' = IF req.pc = "catch" THEN Response(req.op, 0, 0, 0) ELSE resp
    /\ body' = IF req.pc = "catch" THEN <<>> ELSE body
    /\ UNCHANGED <<projects, tasks, nextProjectId, nextTaskId, outstanding>>

\* the requests of the step-by-step specifications: project 1 or a project
\* that does not exist; a root task (level 1, no parentID) in either, or a
\* subtask of task 1 (level 2); bodies of PUT /tasks/:id that are empty or
\* set status
StepTaskIds == 0..MaxStepTasks
Requests ==
    {[op |-> "createTask", projectID |-> 1, taskLevel |-> 1, parentID |-> 0],
     [op |-> "createTask", projectID |-> 2, taskLevel |-> 1, parentID |-> 0],
     [op |-> "createTask", projectID |-> 1, taskLevel |-> 2, parentID |-> 1]}
        \cup [op : {"updateTask"}, taskId : StepTaskIds,
              updates : {b \in UpdateBodies : b = <<>> \/ b = [status |-> 1]}]
        \cup [op : {"deleteTask"}, taskId : StepTaskIds]
        \cup [op : {"deleteProject"}, projectId : StepProjectIds]

\* the steps of a handler in which no call but connection.query throws
HandlerStep ==
    \/ BeginTransaction
    \/ CreateTaskSelectProject
    \/ CreateTaskSelectParent
    \/ CreateTaskInsert
    \/ CreateTaskPatch
    \/ CreateTaskSelect
    \/ UpdateTaskSelect
    \/ UpdateTaskUpdate
    \/ UpdateTaskReselect
    \/ DeleteTaskSelect
    \/ DeleteTaskScan
    \/ DeleteTaskDelete
    \/ DeleteProjectDeleteTasks
    \/ DeleteProjectDeleteProject
    \/ QueryThrows
    \/ Rollback
    \/ Commit
    \/ Respond
    \/ Catch
    \/ Finally

\* Requests handled one after the other, step by step, over a store whose
\* statements may fail.
NextFault ==
    \/ \E r \in Requests :
          /\ r.op = "createTask" => nextTaskId <= MaxStepTasks
          /\ Receive(r.op, r)
    \/ HandlerStep

SpecFault == InitOneProject /\ [][NextFault]_vars

\* The same, where beginTransaction, commit and rollback may fail too.
NextPool ==
    \/ NextFault
    \/ BeginTransactionThrows
    \/ \E applied \in BOOLEAN : CommitThrows(applied)
    \/ RollbackThrows

SpecPool == InitOneProject /\ [][NextPool]_vars

\* ------------------------------------------------ two requests at a time
\* Two handlers run at once, each on a connection of its own and in a
\* transaction of its own; a step is one `await` of one of them.  req[s] is
\* the handler of slot s: its position, inputs and local variables, and its
\* open transaction: the rows it has written (written), the ids it has
\* deleted (deleted) and, when its reads are repeatable, the committed rows
\* as its first read found them (snapshot).  tasks is the committed table.
Slots == {1, 2}
Other(s) == CHOOSE o \in Slots : o # s
NoRows == [i \in {} |-> 0]

\* the open transaction of a handler that has just begun: every read sees
\* the snapshot of the first read (repeatable) or the rows committed by then
Transaction(repeatable) ==
    [repeatable |-> repeatable, hasSnapshot |-> FALSE, snapshot |-> NoRows,
     written |-> NoRows, deleted |-> {}]

\* the rows a SELECT of the transaction reads: committed rows only, and the
\* transaction's own writes
Committed(t) == IF t.repeatable /\ t.hasSnapshot THEN t.snapshot ELSE tasks
View(t) ==
    [i \in (DOMAIN Committed(t) \ t.deleted) \cup DOMAIN t.written |->
        IF i \in DOMAIN t.written THEN t.written[i] ELSE Committed(t)[i]]

\* the transaction after a SELECT
AfterRead(t) ==
    IF t.repeatable /\ ~t.hasSnapshot
    THEN [t EXCEPT !.hasSnapshot = TRUE, !.snapshot = tasks]
    ELSE t

\* the rows an UPDATE or DELETE of the transaction works on: the latest
\* committed ones and its own
Current(t) ==
    [i \in (DOMAIN tasks \ t.deleted) \cup DOMAIN t.written |->
        IF i \in DOMAIN t.written THEN t.written[i] ELSE tasks[i]]

\* the rows a transaction holds locked until it ends
Locked(t) == DOMAIN t.written \cup t.deleted

\* the committed table after the transaction commits
CommittedWith(t) ==
    [i \in (DOMAIN tasks \ t.deleted) \cup DOMAIN t.written |->
        IF i \in DOMAIN t.written THEN t.written[i] ELSE tasks[i]]

\* the rows of a project in a table, in primary-key order
RowsOf(table, projectId) ==
    LET ids == SortedIds({i \in DOMAIN table : table[i].projectID = projectId})
    IN  [k \in 1..Len(ids) |-> table[ids[k]]]

SlotAt(s, op, pc) == req[s].pc = pc /\ req[s].op = op

\* a step of the handler of slot s that touches nothing but the handler
SlotLocal(s, next) ==
    /\ req' = [req EXCEPT ![s] = next]
    /\ UNCHANGED <<projects, tasks, nextProjectId, nextTaskId, resp, body, outstanding>>

\* pool.getConnection() and connection.beginTransaction()
SlotBegin(s, first) ==
    /\ req[s].pc = "beginTransaction"
    /\ outstanding' = outstanding + 1
    /\ \E repeatable \in BOOLEAN :
          req' = [req EXCEPT ![s] = [@ EXCEPT !.pc = first,
                                              !.tx = Transaction(repeatable)]]
    /\ UNCHANGED <<projects, tasks, nextProjectId, nextTaskId, resp, body>>

\* connection.rollback(), the response and connection.release()
SlotRollback(s) ==
    /\ req[s].pc = "rollback"
    /\ req' = [req EXCEPT ![s] = [@ EXCEPT !.pc = "done", !.tx = Transaction(FALSE)]]
    /\ resp' = Response(req[s].op, req[s].status, 0, 0)
    /\ body' = <<>>
    /\ outstanding' = outstanding - 1
    /\ UNCHANGED <<projects, tasks, nextProjectId, nextTaskId>>

\* POST /tasks of slot s, line 296: SELECT id FROM projects WHERE id = ?
RaceCreateSelectProject(s) ==
    /\ SlotAt(s, "createTask", "selectProject")
    /\ SlotLocal(s, IF req[s].args.projectID \notin projects
                    THEN [req[s] EXCEPT !.pc = "rollback", !.status = 404]
                    ELSE IF LooksUpParent(req[s].args.taskLevel, req[s].args.parentID)
                    THEN [req[s] EXCEPT !.pc = "selectParent"]
                    ELSE [req[s] EXCEPT !.pc = "insert"])

\* POST /tasks, lines 306-329: SELECT ... FROM tasks WHERE id = parentID, a
\* plain SELECT, and the ancestor pointers computed from the row it returns
RaceCreateSelectParent(s) ==
    /\ SlotAt(s, "createTask", "selectParent")
    /\ LET parentID == req[s].args.parentID
           found == View(req[s].tx)
       IN  SlotLocal(s,
              IF parentID \notin DOMAIN found
              THEN [req[s] EXCEPT !.pc = "rollback", !.status = 400,
                                  !.tx = AfterRead(@)]
              ELSE [req[s] EXCEPT !.pc = "insert", !.tx = AfterRead(@),
                                  !.pointers = AncestorPointers(found[parentID],
                                                                req[s].args.taskLevel)])

\* POST /tasks, lines 333-350: INSERT INTO tasks
RaceCreateInsert(s) ==
    /\ SlotAt(s, "createTask", "insert")
    /\ LET a == req[s].args
           lv == req[s].pointers
           row == [InsertedRow(nextTaskId, a.projectID, 1, 0, 0, 1) EXCEPT
                      !.taskLevel = a.taskLevel, !.parentID = Or(a.parentID, 0),
                      !.level1ID = lv.level1ID, !.level2ID = lv.level2ID,
                      !.level3ID = lv.level3ID, !.level4ID = lv.level4ID]
       IN  req' = [req EXCEPT ![s] =
                      [@ EXCEPT !.pc = "patch", !.newTaskId = nextTaskId,
                                !.tx.written = (nextTaskId :> row) @@ @]]
    /\ nextTaskId' = nextTaskId + 1
    /\ UNCHANGED <<projects, tasks, nextProjectId, resp, body, outstanding>>

\* POST /tasks, lines 355-379: UPDATE tasks SET levelNID = id WHERE id = id
RaceCreatePatch(s) ==
    /\ SlotAt(s, "createTask", "patch")
    /\ SlotLocal(s, [req[s] EXCEPT
                        !.pc = "commit",
                        !.tx.written[req[s].newTaskId] = SelfPointerPatch(@)])

\* POST /tasks, lines 382-410: the SELECT of the new row, the commit, the
\* 201 response and the release
RaceCreateCommit(s) ==
    /\ SlotAt(s, "createTask", "commit")
    /\ tasks' = CommittedWith(req[s].tx)
    /\ resp' = Response("createTask", 201, req[s].newTaskId, 0)
    /\ body' = <<CreateTaskDecode(View(req[s].tx)[req[s].newTaskId])>>
    /\ outstanding' = outstanding - 1
    /\ req' = [req EXCEPT ![s] = [@ EXCEPT !.pc = "done", !.status = 201,
                                           !.tx = Transaction(FALSE)]]
    /\ UNCHANGED <<projects, nextProjectId, nextTaskId>>

\* DELETE /tasks/:id of slot s, lines 575-596: SELECT * FROM tasks WHERE id = ?
RaceDeleteSelect(s) ==
    /\ SlotAt(s, "deleteTask", "selectTask")
    /\ LET taskId == req[s].args.taskId
           found == View(req[s].tx)
       IN  SlotLocal(s,
              IF taskId \notin DOMAIN found
              THEN [req[s] EXCEPT !.pc = "rollback", !.status = 404,
                                  !.tx = AfterRead(@)]
              ELSE IF found[taskId].taskLevel \notin 1..NumLevels
              THEN [req[s] EXCEPT !.pc = "rollback", !.status = 400,
                                  !.tx = AfterRead(@)]
              ELSE [req[s] EXCEPT !.pc = "scan", !.tx = AfterRead(@),
                                  !.taskToDelete = found[taskId]])

\* DELETE /tasks/:id, lines 599-619: SELECT id, levelNID FROM tasks WHERE
\* projectID = ?, a plain SELECT, and the closure over its rows
RaceDeleteScan(s) ==
    /\ SlotAt(s, "deleteTask", "scan")
    /\ LET taskId == req[s].args.taskId
           n == req[s].taskToDelete.taskLevel
           rows == RowsOf(View(req[s].tx), req[s].taskToDelete.projectID)
       IN  SlotLocal(s, [req[s] EXCEPT
                            !.pc = "delete", !.tx = AfterRead(@),
                            !.idsToDelete =
                                Closure(rows, n, FirstPass(rows, n, Str(taskId),
                                                           {Str(taskId)}))])

\* DELETE /tasks/:id, line 625: DELETE FROM tasks WHERE id IN (?), which
\* waits for the rows another transaction holds locked
RaceDeleteDelete(s) ==
    /\ SlotAt(s, "deleteTask", "delete")
    /\ LET gone == {v[2] : v \in req[s].idsToDelete} \cap DOMAIN Current(req[s].tx)
       IN  /\ gone \cap Locked(req[Other(s)].tx) = {}
           /\ SlotLocal(s, [req[s] EXCEPT
                               !.pc = "commit",
                               !.tx.deleted = @ \cup (gone \cap DOMAIN tasks),
                               !.tx.written = [i \in DOMAIN @ \ gone |-> @[i]]])

\* DELETE /tasks/:id, lines 627-632: the commit, the response, the release
RaceDeleteCommit(s) ==
    /\ SlotAt(s, "deleteTask", "commit")
    /\ tasks' = CommittedWith(req[s].tx)
    /\ resp' = Response("deleteTask", 200, req[s].args.taskId,
                        Cardinality(req[s].idsToDelete))
    /\ body' = <<>>
    /\ outstanding' = outstanding - 1
    /\ req' = [req EXCEPT ![s] = [@ EXCEPT !.pc = "done", !.status = 200,
                                           !.tx = Transaction(FALSE)]]
    /\ UNCHANGED <<projects, nextProjectId, nextTaskId>>

\* a request as the handler of a slot receives it
Received(op, args) ==
    [pc |-> "beginTransaction", op |-> op, args |-> args, status |-> 0,
     tx |-> Transaction(FALSE), pointers |-> NoPointers, newTaskId |-> 0,
     taskToDelete |-> NoPointers, idsToDelete |-> {}]

\* Project 1 holds task 1 and its subtask 2 as POST /tasks stored them.
\* Slot 1 has received a POST /tasks for a child of one of them, slot 2 a
\* DELETE /tasks/:id of one of them.
InitRace ==
    /\ projects = {1}
    /\ nextProjectId = 2
    /\ nextTaskId = 3
    /\ resp = Response("none", 0, 0, 0)
    /\ body = <<>>
    /\ outstanding = 0
    /\ LET root == SelfPointerPatch(InsertedRow(1, 1, 1, 0, 0, 1))
           lv == AncestorPointers(root, 2)
           subtask == SelfPointerPatch(
               [root EXCEPT !.id = 2, !.taskLevel = 2, !.parentID = 1,
                            !.level1ID = lv.level1ID, !.level2ID = lv.level2ID,
                            !.level3ID = lv.level3ID, !.level4ID = lv.level4ID])
       IN  tasks = <<root, subtask>>
    /\ \E parentID \in {1, 2}, taskId \in {1, 2} :
          req = <<Received("createTask", [projectID |-> 1, taskLevel |-> parentID + 1,
                                          parentID |-> parentID]),
                  Received("deleteTask", [taskId |-> taskId])>>

NextRace ==
    \E s \in Slots :
       \/ SlotBegin(s, IF req[s].op = "createTask" THEN "selectProject"
                       ELSE "selectTask")
       \/ SlotRollback(s)
       \/ RaceCreateSelectProject(s)
       \/ RaceCreateSelectParent(s)
       \/ RaceCreateInsert(s)
       \/ RaceCreatePatch(s)
       \/ RaceCreateCommit(s)
       \/ RaceDeleteSelect(s)
       \/ RaceDeleteScan(s)
       \/ RaceDeleteDelete(s)
       \/ RaceDeleteCommit(s)

SpecRace == InitRace /\ [][NextRace]_vars

\* PUT /tasks/:id of slot s, lines 481-518: SELECT * FROM tasks WHERE id = ?,
\* a plain SELECT, and the update fields built from the body
RaceUpdateSelect(s) ==
    /\ SlotAt(s, "updateTask", "selectTask")
    /\ LET taskId == req[s].args.taskId
           found == View(req[s].tx)
       IN  SlotLocal(s,
              IF taskId \notin DOMAIN found
              THEN [req[s] EXCEPT !.pc = "rollback", !.status = 404,
                                  !.tx = AfterRead(@)]
              ELSE IF UpdateFields(found[taskId], req[s].args.updates) = {}
              THEN [req[s] EXCEPT !.pc = "rollback", !.status = 400,
                                  !.tx = AfterRead(@)]
              ELSE [req[s] EXCEPT !.pc = "update", !.tx = AfterRead(@),
                                  !.currentTask = found[taskId]])

\* PUT /tasks/:id, lines 520-536: UPDATE tasks SET ... WHERE id = ?, with the
\* values computed from currentTask; it waits for a row another transaction
\* holds locked and changes the latest committed row
RaceUpdateUpdate(s) ==
    /\ SlotAt(s, "updateTask", "update")
    /\ LET taskId == req[s].args.taskId
           stored == Current(req[s].tx)
           values == UpdatedRow(req[s].currentTask, req[s].args.updates, 2)
           set == UpdateFields(req[s].currentTask, req[s].args.updates)
                      \cup {"modifiedAt"}
       IN  /\ taskId \notin Locked(req[Other(s)].tx)
           /\ SlotLocal(s,
                 IF taskId \notin DOMAIN stored
                 THEN [req[s] EXCEPT !.pc = "reselect"]
                 ELSE [req[s] EXCEPT
                          !.pc = "reselect",
                          !.tx.written =
                              (taskId :> [f \in DOMAIN stored[taskId] |->
                                             IF f \in set THEN values[f]
                                             ELSE stored[taskId][f]]) @@ @])

\* PUT /tasks/:id, lines 538-564: the SELECT of the updated row, the commit,
\* the decode of the row and the response; commits counts the updates
\* committed so far
RaceUpdateCommit(s) ==
    /\ SlotAt(s, "updateTask", "reselect")
    /\ LET taskId == req[s].args.taskId
           found == View(req[s].tx)
       IN  IF taskId \notin DOMAIN found
           THEN SlotLocal(s, [req[s] EXCEPT !.pc = "rollback", !.status = 404,
                                            !.tx = AfterRead(@)])
           ELSE /\ tasks' = CommittedWith(req[s].tx)
                /\ IF UpdateTaskDecodeThrows(found[taskId])
                   THEN /\ resp' = Response("updateTask", 500, 0, 0)
                        /\ body' = <<>>
                   ELSE /\ resp' = Response("updateTask", 200, taskId, 0)
                        /\ body' = <<UpdateTaskDecode(found[taskId])>>
                /\ outstanding' = outstanding - 1
                /\ req' = [req EXCEPT ![s] =
                              [@ EXCEPT !.pc = "done", !.status = resp'.status,
                                        !.tx = Transaction(FALSE),
                                        !.commits = 1 + Cardinality(
                                            {o \in Slots : req[o].commits > 0})]]
                /\ UNCHANGED <<projects, nextProjectId, nextTaskId>>

\* a PUT /tasks/:id as the handler of a slot receives it
ReceivedUpdate(taskId, updates) ==
    [pc |-> "beginTransaction", op |-> "updateTask",
     args |-> [taskId |-> taskId, updates |-> updates], status |-> 0,
     tx |-> Transaction(FALSE), currentTask |-> NoPointers, commits |-> 0]

\* Project 1 holds task 1 and its subtask 2 as POST /tasks stored them.
\* Each slot has received a PUT /tasks/:id with an estHours of its own for
\* one of them and, or not, a status.
InitUpdateRace ==
    /\ projects = {1}
    /\ nextProjectId = 2
    /\ nextTaskId = 3
    /\ resp = Response("none", 0, 0, 0)
    /\ body = <<>>
    /\ outstanding = 0
    /\ LET root == SelfPointerPatch(InsertedRow(1, 1, 1, 0, 0, 1))
           lv == AncestorPointers(root, 2)
           subtask == SelfPointerPatch(
               [root EXCEPT !.id = 2, !.taskLevel = 2, !.parentID = 1,
                            !.level1ID = lv.level1ID, !.level2ID = lv.level2ID,
                            !.level3ID = lv.level3ID, !.level4ID = lv.level4ID])
       IN  tasks = <<root, subtask>>
    /\ \E first \in {1, 2, 3}, second \in {1, 2, 3}, withStatus \in BOOLEAN :
          req = <<ReceivedUpdate(first, [estHours |-> 1]),
                  ReceivedUpdate(second, IF withStatus
                                         THEN [estHours |-> 2, status |-> 1]
                                         ELSE [estHours |-> 2])>>

NextUpdateRace ==
    \E s \in Slots :
       \/ SlotBegin(s, "selectTask")
       \/ SlotRollback(s)
       \/ RaceUpdateSelect(s)
       \/ RaceUpdateUpdate(s)
       \/ RaceUpdateCommit(s)

SpecUpdateRace == InitUpdateRace /\ [][NextUpdateRace]_vars

\* ------------------------------------------------------------------ claims
\* the stored tasks reachable from id by parentID links (child.parentID =
\* ancestor.id), id itself left out unless a link leads back to it
RECURSIVE ReachableFrom(_, _)
ReachableFrom(t, S) ==
    LET more == {c \in DOMAIN t : t[c].parentID \in S} \cup S
    IN  IF more = S THEN S ELSE ReachableFrom(t, more)

Descendants(t, id) == ReachableFrom(t, {id}) \ {id}

\* a committed DELETE /tasks/:id of the task id
DeleteTaskCommits(id) == DeleteTask(id) /\ resp'.status = 200

\* C1: every stored task of level L in 1..4 has levelLID = its id and
\* levelKID = 0 for every K > L.
C1_SelfPointer ==
    \A i \in DOMAIN tasks :
        tasks[i].taskLevel \in 1..NumLevels =>
            /\ LevelID(tasks[i], tasks[i].taskLevel) = i
            /\ \A k \in (tasks[i].taskLevel + 1)..NumLevels : LevelID(tasks[i], k) = 0

\* C2: a stored task T of level L > 1 created under a parent P has, for every
\* K < L, levelKID(T) = levelKID(P), or P's id when P.taskLevel = K.
C2_AncestorInheritance ==
    \A i \in DOMAIN tasks :
        LET T == tasks[i]
        IN  (T.taskLevel > 1 /\ T.parentID # 0 /\ T.parentID \in DOMAIN tasks) =>
                LET P == tasks[T.parentID]
                IN  \A k \in 1..NumLevels :
                        k < T.taskLevel =>
                            \/ LevelID(T, k) = LevelID(P, k)
                            \/ P.taskLevel = k /\ LevelID(T, k) = P.id

\* C2 witness: the last request created a level-2 task under a level-1
\* parent and the task carries the parent's id as level1ID.
C2_Witness ==
    /\ resp.op = "createTask" /\ resp.status = 201
    /\ tasks[resp.id].taskLevel = 2
    /\ tasks[resp.id].parentID \in DOMAIN tasks
    /\ tasks[tasks[resp.id].parentID].taskLevel = 1
    /\ tasks[resp.id].level1ID = tasks[resp.id].parentID

\* C3: after a committed deleteTask(id) the store holds neither id nor any
\* task that was reachable from id by parentID links.
C3_CascadeComplete ==
    [][\A id \in TaskIdInputs :
          DeleteTaskCommits(id) =>
              DOMAIN tasks' \cap ({id} \cup Descendants(tasks, id)) = {}]_vars

\* C4: a committed deleteTask on a task with N transitive descendants returns
\* deletedCount = N + 1, the number of rows it removed.
C4_DeletedCount ==
    [][\A id \in TaskIdInputs :
          DeleteTaskCommits(id) =>
              /\ resp'.deletedCount = Cardinality(Descendants(tasks, id)) + 1
              /\ resp'.deletedCount =
                     Cardinality(DOMAIN tasks) - Cardinality(DOMAIN tasks')]_vars

\* C5: a committed deleteTask(id) removes no row other than id and its
\* transitive descendants, and leaves every other task and every project
\* unchanged.
C5_DeleteExact ==
    [][\A id \in 0..MaxChainTasks :
          DeleteTaskCommits(id) =>
              /\ (DOMAIN tasks \ DOMAIN tasks') \subseteq ({id} \cup Descendants(tasks, id))
              /\ \A i \in DOMAIN tasks' : i \in DOMAIN tasks /\ tasks'[i] = tasks[i]
              /\ projects' = projects]_vars

\* C6: a createTask with taskLevel > 1 commits only when parentID is the id
\* of an existing task.
C6_ParentValidated ==
    (resp.op = "createTask" /\ resp.status = 201 /\ tasks[resp.id].taskLevel > 1) =>
        tasks[resp.id].parentID \in DOMAIN tasks \ {resp.id}

\* C7: every stored task has taskLevel in 1..4.
C7_LevelBound == \A i \in DOMAIN tasks : tasks[i].taskLevel \in 1..NumLevels

\* C8: every stored task's projectID is the id of an existing project; a
\* createTask naming no existing project answers 404 and writes nothing; a
\* committed deleteProject(id) leaves no task with projectID = id.
C8_ProjectIntegrity ==
    /\ [](\A i \in DOMAIN tasks : tasks[i].projectID \in projects)
    /\ [][resp'.op = "createTask" =>
            \A projectID \in ProjectIdInputs \ projects, taskLevel \in {1, 2},
               parentID \in TaskIdInputs :
                CreateTask(projectID, taskLevel, parentID, 0, 1) =>
                    /\ resp'.status = 404
                    /\ UNCHANGED <<projects, tasks>>]_vars
    /\ [][\A projectId \in ProjectIdInputs :
            (DeleteProject(projectId) /\ resp'.status = 200) =>
                \A i \in DOMAIN tasks' : tasks'[i].projectID # projectId]_vars

\* C8 witness: a project that owned a task has been deleted, and no task
\* is left.
C8_Witness ==
    /\ resp.op = "deleteProject" /\ resp.status = 200
    /\ nextTaskId > 1
    /\ resp.id \notin projects
    /\ tasks = <<>>

\* a committed PUT /tasks/:id of the task id with the body updates
UpdateTaskCommits(id, updates) == UpdateTask(id, updates, 2) /\ resp'.status = 200

\* the columns of a task row other than the allow-listed ones, estPrevHours
\* and modifiedAt
FrameColumns ==
    {"id", "projectID", "taskLevel", "parentID",
     "level1ID", "level2ID", "level3ID", "level4ID", "info"}

\* C9: a committed updateTask carrying estHours on a task of level > 1 sets
\* estPrevHours to the text of [v], v the estHours before the update; one on
\* a level-1 task, or one not carrying estHours, leaves estPrevHours as it was.
C9_EstimateHistory ==
    [][(resp'.op = "updateTask" /\ resp'.status = 200) =>
          \A updates \in UpdateBodies :
              UpdateTaskCommits(resp'.id, updates) =>
                  LET before == tasks[resp'.id]
                      after == tasks'[resp'.id]
                  IN  IF "estHours" \in DOMAIN updates /\ before.taskLevel > 1
                      THEN /\ JSONparse(after.estPrevHours).ok
                           /\ JSONparse(after.estPrevHours).value = <<before.estHours>>
                      ELSE after.estPrevHours = before.estPrevHours]_vars

\* C9 witness: an update has replaced the history [0] of a level-2 task by
\* [1], the estimate the update overwrote.
C9_Witness ==
    /\ resp.op = "updateTask" /\ resp.status = 200
    /\ tasks[resp.id].taskLevel = 2
    /\ tasks[resp.id].estHours = 0
    /\ tasks[resp.id].estPrevHours = <<"[", "1", "]">>

\* the frame of a PUT /tasks/:id step: on the row id only allow-listed
\* columns of the body, estPrevHours and modifiedAt change; no other task
\* row and no project row changes
UpdateFrame(id, updates) ==
    /\ projects' = projects
    /\ DOMAIN tasks' = DOMAIN tasks
    /\ \A i \in DOMAIN tasks : i # id => tasks'[i] = tasks[i]
    /\ id \in DOMAIN tasks =>
           /\ \A f \in FrameColumns : tasks'[id][f] = tasks[id][f]
           /\ \A f \in allowedUpdates :
                  f \notin DOMAIN updates => tasks'[id][f] = tasks[id][f]

\* the frame of every PUT /tasks/:id step: one that answers 200 for the body
\* updates keeps UpdateFrame, any other leaves the store unchanged
UpdateFrameKept ==
    resp'.op = "updateTask" =>
        IF resp'.status = 200
        THEN \A updates \in UpdateBodies :
                 UpdateTaskCommits(resp'.id, updates) => UpdateFrame(resp'.id, updates)
        ELSE UNCHANGED <<projects, tasks>>

\* the bodies that carry no allow-listed field
BodiesWithoutAllowed == {b \in UpdateBodies : allowedUpdates \cap DOMAIN b = {}}

\* C10 as stated: the frame, and every request with no allow-listed field
\* answers 400 and leaves the store unchanged.
C10_UpdateFrameAsStated ==
    [][/\ UpdateFrameKept
       /\ \A id \in TaskIdInputs, updates \in BodiesWithoutAllowed :
              UpdateTask(id, updates, 2) =>
                  /\ resp'.status = 400
                  /\ UNCHANGED <<projects, tasks>>]_vars

\* C10 amended: the frame, and a request with no allow-listed field answers
\* 400 when the task exists and 404 when it does not, the store unchanged
\* in both cases.
C10_UpdateFrame ==
    [][/\ UpdateFrameKept
       /\ \A id \in TaskIdInputs, updates \in BodiesWithoutAllowed :
              UpdateTask(id, updates, 2) =>
                  /\ resp'.status = IF id \in DOMAIN tasks THEN 400 ELSE 404
                  /\ UNCHANGED <<projects, tasks>>]_vars

\* C10 witness: an update has changed status on one of two stored tasks,
\* the other still as created.
C10_Witness ==
    /\ resp.op = "updateTask" /\ resp.status = 200
    /\ tasks[resp.id].status = 1
    /\ tasks[resp.id].modifiedAt = 2
    /\ \E i \in DOMAIN tasks : i # resp.id /\ tasks[i].modifiedAt = 1

\* a request of the kind op is being handled
Handling(op) == req.pc # "idle" /\ req.op = op

C12_AbsentTask ==
    [][(Handling("deleteTask") /\ req.args.taskId \notin DOMAIN req.before[2]) =>
          /\ UNCHANGED <<projects, tasks>>
          /\ req'.pc # "idle" => ~req'.wrote
          /\ (req.pc = "selectTask" /\ req'.pc # "catch") =>
                 (req'.pc = "rollback" /\ req'.status = 404)
          /\ req.pc = "rollback" => resp' = Response("deleteTask", 404, 0, 0)]_vars

\* C12 witness: a DELETE /tasks/:id naming no row has been answered 404 with
\* no write, another task being stored.
C12_Witness ==
    /\ req.pc = "finally" /\ req.op = "deleteTask"
    /\ resp = Response("deleteTask", 404, 0, 0)
    /\ ~req.wrote
    /\ req.args.taskId \notin DOMAIN tasks
    /\ tasks # <<>>

\* the committed store after the whole of the request req, computed before
\* its commit
WholeEffect ==
    CASE req.op = "createTask" ->
            LET row == SelfPointerPatch(InsertedRow(req.newTaskId, req.args.projectID,
                                                    req.args.taskLevel,
                                                    req.args.parentID, 0, 1))
            IN  <<projects, [i \in DOMAIN tasks \cup {req.newTaskId} |->
                                IF i = req.newTaskId THEN row ELSE tasks[i]]>>
      [] req.op = "deleteTask" ->
            <<projects, TasksWithout(IdsToDelete(req.args.taskId))>>
      [] req.op = "deleteProject" ->
            <<projects \ {req.args.projectId}, TasksWithoutProject(req.args.projectId)>>

\* the handlers C13 names
Transactional == {"createTask", "deleteTask", "deleteProject"}

\* C13: in createTask, deleteTask and deleteProject a statement that throws
\* is followed by the rollback and the 500, the committed store being as the
\* request found it; a step changes the committed store only by the whole
\* effect of the request; no committed task of a level in 1..4 lacks its
\* self pointer.
C13_AllOrNothing ==
    /\ [](\A i \in DOMAIN tasks :
             tasks[i].taskLevel \in 1..NumLevels =>
                 LevelID(tasks[i], tasks[i].taskLevel) = i)
    /\ [][(req.pc # "idle" /\ req.op \in Transactional) =>
             /\ req.pc = "catch" =>
                    /\ resp' = Response(req.op, 500, 0, 0)
                    /\ <<projects', tasks'>> = req.before
             /\ <<projects', tasks'>> # <<projects, tasks>> =>
                    /\ <<projects', tasks'>> = WholeEffect
                    /\ req'.pc = "respond"
             /\ req'.pc = "catch" => (req.pc \in QueryPcs /\ <<projects, tasks>> = req.before)]_vars

\* C13 witness: the self-pointer patch of a createTask has thrown after the
\* insert, the 500 is sent and the store holds no task.
C13_Witness ==
    /\ req.pc = "finally" /\ req.op = "createTask"
    /\ resp = Response("createTask", 500, 0, 0)
    /\ req.wrote
    /\ nextTaskId = 2
    /\ tasks = <<>>

\* C17: the number of connections out of the pool is 1 while a request is
\* handled and 0 when none is.
C17_ConnectionReleased == outstanding = IF req.pc = "idle" THEN 0 ELSE 1

\* C17 witness: a handler whose rollback threw in the catch has ended
\* without a response, and its connection is back in the pool.
C17_Witness ==
    /\ req = Idle
    /\ resp.status = 0 /\ resp.op \in {"createTask", "updateTask", "deleteTask", "deleteProject"}
    /\ outstanding = 0

\* C14: an updateTask that does not answer 200 leaves the task rows as they
\* were, and one that changes a task row answers 200 with the updated task.
C14_UpdateAllOrNothing ==
    [][resp'.op = "updateTask" =>
          /\ resp'.status # 200 => tasks' = tasks
          /\ tasks' # tasks =>
                 /\ resp'.status = 200
                 /\ Len(body') = 1
                 /\ body'[1].id = resp'.id
                 /\ body'[1].modifiedAt = tasks'[resp'.id].modifiedAt
                 /\ body'[1].status = tasks'[resp'.id].status]_vars

\* the nodes of a tree of tasks, parents before children
TreeChildren(node) ==
    (IF "subtasks" \in DOMAIN node THEN node.subtasks ELSE <<>>)
        \o (IF "actionItems" \in DOMAIN node THEN node.actionItems ELSE <<>>)
        \o (IF "subactionItems" \in DOMAIN node THEN node.subactionItems ELSE <<>>)
RECURSIVE TreeNodes(_)
TreeNodes(tree) ==
    IF tree = <<>> THEN <<>>
    ELSE <<Head(tree)>> \o TreeNodes(TreeChildren(Head(tree))) \o TreeNodes(Tail(tree))

\* a decoded field is the value of a well-formed text and the default for
\* any other text
DecodedAsClaimed(decoded, text, defaultValue) ==
    decoded = IF JSONparse(text).ok THEN Parsed(text) ELSE defaultValue
TaskDecodedAsClaimed(task, row) ==
    /\ DecodedAsClaimed(task.estPrevHours, row.estPrevHours, Array(<<>>))
    /\ DecodedAsClaimed(task.info, row.info, Object(<<>>))

\* C15: no response of createTask, updateTask, list-tasks or project-update
\* is a 500, and every task of a success response of theirs carries, for
\* estPrevHours and info, the parsed value of a well-formed column and the
\* empty sequence or empty document for a malformed or empty one.
C15_BestEffortDecode ==
    resp.op \in {"createTask", "updateTask", "listTasks", "updateProject"} =>
        /\ resp.status # 500
        /\ resp.status \in {200, 201} =>
               IF resp.op = "updateProject"
               THEN \A k \in 1..Len(TreeNodes(body)) :
                        \E i \in DOMAIN tasks :
                            /\ ToString(i) = TreeNodes(body)[k].id
                            /\ TaskDecodedAsClaimed(TreeNodes(body)[k], tasks[i])
               ELSE \A k \in 1..Len(body) :
                        TaskDecodedAsClaimed(body[k], tasks[body[k].id])

\* the ids of a list of rows, as the strings the response carries
RowIds(rows) == [k \in 1..Len(rows) |-> ToString(rows[k].id)]
\* the ids of a list of nodes of a tree
NodeIds(nodes) == [k \in 1..Len(nodes) |-> nodes[k].id]
\* the rows of a list with the given parentID, in the order of the list
ChildRows(rows, parentId) ==
    LET isChild(task) == task.parentID = parentId
    IN  SelectSeq(rows, isChild)
\* the field of a node that holds the children of a task of the level
FieldOfLevel(taskLevel) ==
    CASE taskLevel = 1 -> "subtasks"
      [] taskLevel = 2 -> "actionItems"
      [] taskLevel = 3 -> "subactionItems"

\* C16: the tree built from the rows of a well-formed forest of at most
\* four levels, in any order, has one node for every row and no other; its
\* top level is the roots in the order of the rows; every node carries its
\* row's columns, and its children are the rows whose parentID is its id,
\* in the order of the rows, under subtasks for a level-1 node, actionItems
\* for a level-2 node and subactionItems for a level-3 node, with no child
\* under any other field.
C16_TreeRoundTrip ==
    (req.pc = "respond" /\ req.op = "updateProject") =>
        LET rows == req.allTasks
            nodes == TreeNodes(body)
        IN  /\ Len(nodes) = Len(rows)
            /\ \A r \in 1..Len(rows) :
                   Cardinality({k \in 1..Len(nodes) :
                                   nodes[k].id = ToString(rows[r].id)}) = 1
            /\ NodeIds(body) = RowIds(ChildRows(rows, 0))
            /\ \A k \in 1..Len(nodes) :
                   \E r \in 1..Len(rows) :
                      LET node == nodes[k]
                          row == rows[r]
                      IN  /\ node.id = ToString(row.id)
                          /\ node.taskLevel = row.taskLevel
                          /\ node.parentID = row.parentID
                          /\ IF row.taskLevel < NumLevels
                             THEN /\ FieldOfLevel(row.taskLevel) \in DOMAIN node
                                  /\ NodeIds(node[FieldOfLevel(row.taskLevel)])
                                         = RowIds(ChildRows(rows, row.id))
                                  /\ TreeChildren(node)
                                         = node[FieldOfLevel(row.taskLevel)]
                             ELSE TreeChildren(node) = <<>>

\* a tree of four levels has been built from rows listed child first
C16_Witness ==
    /\ req.pc = "respond" /\ req.op = "updateProject"
    /\ Len(req.allTasks) = NumLevels
    /\ req.allTasks[1].taskLevel = NumLevels
    /\ req.allTasks[2].taskLevel = 1
    /\ Len(body) = 1
    /\ Len(body[1].subtasks) = 1
    /\ Len(body[1].subtasks[1].actionItems) = 1
    /\ Len(body[1].subtasks[1].actionItems[1].subactionItems) = 1

\* C18: the closure of deleteTask over any rows, cyclic and dangling
\* levelNID values included: the loop is left; no pass removes an id from
\* idsToDelete; an iteration of the do/while leaves the loop exactly when
\* it added no id; and at most (number of rows + 1) passes are run.
C18_ClosureTerminates ==
    /\ <>(req.pc = "delete")
    /\ [](req.passes <= Len(req.allTasks) + 1)
    /\ [][/\ req.idsToDelete \subseteq req'.idsToDelete
          /\ req.pc = "doWhile" =>
                 (req'.pc = "delete" <=> req'.idsToDelete = req.idsToDelete)]_vars

\* the loop was left after (number of rows + 1) passes over rows whose
\* pointers form a cycle through every row
C18_Witness ==
    /\ req.pc = "delete"
    /\ Len(req.allTasks) = MaxClosureRows
    /\ req.passes = Len(req.allTasks) + 1
    /\ \A i \in 1..Len(req.allTasks) : Num(i) \in req.idsToDelete

\* the number of levels of a tree of tasks
RECURSIVE Depth(_)
Depth(tree) ==
    IF tree = <<>> THEN 0
    ELSE LET below == {Depth(TreeChildren(tree[k])) : k \in 1..Len(tree)}
         IN  1 + CHOOSE d \in below : \A e \in below : e <= d

\* C19: over any flat list, cyclic and dangling parentID links included,
\* the tree is built; its top level holds tasks of level 1, the children of
\* a node are of the next level, a node of level 4 has no children, and
\* the tree is at most four levels deep.
C19_BuildTreeTerminates ==
    /\ <>(req.pc = "respond")
    /\ [](req.pc = "respond" =>
            /\ Depth(body) <= NumLevels
            /\ \A k \in 1..Len(body) : body[k].taskLevel = 1
            /\ \A k \in 1..Len(TreeNodes(body)) :
                   LET node == TreeNodes(body)[k]
                   IN  /\ \A c \in 1..Len(TreeChildren(node)) :
                              TreeChildren(node)[c].taskLevel = node.taskLevel + 1
                       /\ node.taskLevel = NumLevels => TreeChildren(node) = <<>>)

\* a tree of four levels was built from a list in which the task of level
\* 5 names the task of level 4 as its parent
C19_Witness ==
    /\ req.pc = "respond"
    /\ Len(req.allTasks) = NumLevels + 1
    /\ req.allTasks[NumLevels + 1].taskLevel = NumLevels + 1
    /\ req.allTasks[NumLevels + 1].parentID = NumLevels
    /\ Depth(body) = NumLevels

\* C20: the tree of a 200 response of the project update has exactly one
\* node for every stored task whose projectID is the project.
C20_TreeComplete ==
    (resp.op = "updateProject" /\ resp.status = 200) =>
        \A i \in DOMAIN tasks :
            tasks[i].projectID = resp.id =>
                Cardinality({k \in 1..Len(TreeNodes(body)) :
                                TreeNodes(body)[k].id = ToString(i)}) = 1

\* C21: when a createTask under parent p and a deleteTask of p or of an
\* ancestor of p have run at once and both have committed, the new task is
\* not in the store without its parent.
C21_NoOrphanFromRace ==
    (/\ DOMAIN req = Slots
     /\ req[1].pc = "done" /\ req[1].op = "createTask" /\ req[1].status = 201
     /\ req[2].pc = "done" /\ req[2].op = "deleteTask" /\ req[2].status = 200)
        => ~(/\ req[1].newTaskId \in DOMAIN tasks
             /\ req[1].args.parentID \notin DOMAIN tasks)

\* C22: when two updateTask requests carrying estHours for the same task of
\* taskLevel > 1 have run at once and both have committed, the stored
\* estPrevHours is [v], v being the estHours of the update that committed
\* first.
C22_HistoryUnderRace ==
    (/\ DOMAIN req = Slots
     /\ \A s \in Slots : /\ req[s].pc = "done" /\ req[s].op = "updateTask"
                         /\ req[s].status = 200
     /\ req[1].args.taskId = req[2].args.taskId
     /\ tasks[req[1].args.taskId].taskLevel > 1)
        => \E s \in Slots :
              /\ req[s].commits = 1
              /\ tasks[req[1].args.taskId].estPrevHours
                     = JSONstringify(<<req[s].args.updates.estHours>>)

====
